---- MODULE Spec2Model ----
(***************************************************************************)
(* A model of moduledependency/parser.py: the ImportParser object, its     *)
(* parse() entry point, the top-level dispatch loop and the recursive-     *)
(* descent rules parseImport, parseFrom, parseImportedObjects and          *)
(* parseDottedIdentifier.                                                  *)
(*                                                                         *)
(* A string is modelled as the sequence of the pieces it was concatenated  *)
(* from: each piece is the value of an identifier token, "." or "*".  No   *)
(* identifier value contains a dot, so two strings are equal exactly when  *)
(* their piece sequences are.  The empty sequence stands for both "" and   *)
(* Python's None, which the code never tells apart (`if not name`).        *)
(***************************************************************************)
EXTENDS Integers, Sequences, FiniteSets, TLC

VARIABLES self, call, budget

vars == <<self, call, budget>>

\* The number of tokens the callers hand to the parser over its lifetime.
MaxTokens == 4

----------------------------------------------------------------------------
(* Tokens *)

Identifiers == {"a", "b"}

Token(type, value) == [type |-> type, value |-> value]

\* Python's None, as returned by currentToken() past the end.
None == [type |-> "None", value |-> "None"]

Tokens ==
    {Token("import", "import"), Token("from", "from"), Token(".", "."),
     Token(",", ","), Token("*", "*"), Token("other", "(")}
    \cup {Token("identifier", v) : v \in Identifiers}

TokenSeqs(n) == UNION {[1..k -> Tokens] : k \in 0..n}

NoName == <<>>

ParsedImport(moduleName, relative) ==
    [moduleName |-> moduleName, relative |-> relative]

----------------------------------------------------------------------------
(* The ImportParser object and the activation of one parse() call.  A      *)
(* configuration c is the pair [self, call].                               *)

Cleared == [foundImports |-> <<>>, tokens |-> <<>>, index |-> 0]

\* The locals of parse() and of the rule methods it is inside of.
\*   pc              "idle" before the first call; "loop" at the test of
\*                   parse's while loop; "entry" at the first line of
\*                   parseDottedIdentifier and "dotted" at the top of its
\*                   while loop; "returned" / "raised" once the call ended
\*   arg             the tokens argument of parse()
\*   token           the local `token` of parse()
\*   ctx             who called parseDottedIdentifier
\*   dtoken, name, lookingForDot          locals of parseDottedIdentifier
\*   isRelative, rootModuleName           locals of parseFrom
\*   importedObjects                      local of parseImportedObjects
\*   result, error   the value returned / the message of the ParseError
\*   prev, stale     how the previous call ended and the records it left
\*                   in self.foundImports (kept for stating properties)
Frame(arg, prev, stale) ==
    [pc |-> "loop", arg |-> arg, token |-> None, ctx |-> "none",
     dtoken |-> None, name |-> <<>>, lookingForDot |-> FALSE,
     isRelative |-> FALSE, rootModuleName |-> NoName,
     importedObjects |-> <<>>, result |-> <<>>, error |-> "",
     prev |-> prev, stale |-> stale]

Cfg == [self |-> self, call |-> call]

Set(c) == self' = c.self /\ call' = c.call

\* clear() that forgets to reset foundImports.
clear_keepImports(c) == [c EXCEPT !.self.tokens = <<>>, !.self.index = 0]

clear(c) == [c EXCEPT !.self = Cleared]

currentToken(c) ==
    IF c.self.index < Len(c.self.tokens)
    THEN IF c.self.index >= 0
         THEN c.self.tokens[c.self.index + 1]
         ELSE c.self.tokens[Len(c.self.tokens) + c.self.index + 1]
    ELSE None

\* nextToken() that does not move the cursor.
nextToken_noAdvance(c) == c

\* The token nextToken() returns is currentToken of the configuration.
nextToken(c) == [c EXCEPT !.self.index = @ + 1]

addImport(c, moduleName, isRelative) ==
    [c EXCEPT !.self.foundImports =
                  Append(@, ParsedImport(moduleName, isRelative))]

\* raise ParseError(msg): every frame of the call is unwound.
raise(c, msg) ==
    [c EXCEPT !.call = [Frame(c.call.arg, c.call.prev, c.call.stale)
                          EXCEPT !.pc = "raised", !.error = msg]]

\* The locals of parseDottedIdentifier go away when it returns.
popDotted(c) ==
    [c EXCEPT !.call.dtoken = None, !.call.name = <<>>,
              !.call.lookingForDot = FALSE]

\* Control is back in parse's while loop; parse's `token` is as it was.
backToLoop(c) ==
    [c EXCEPT !.call.pc = "loop", !.call.ctx = "none",
              !.call.isRelative = FALSE, !.call.rootModuleName = NoName,
              !.call.importedObjects = <<>>]

----------------------------------------------------------------------------
(* The rules.  parseDottedIdentifier is called from parseImport, from      *)
(* parseFrom (the root module name) and from parseImportedObjects; when it *)
(* returns, resume continues its caller.                                   *)

\* A call of self.parseDottedIdentifier() made by the rule named by ctx.
callDotted(c, ctx) == [c EXCEPT !.call.pc = "entry", !.call.ctx = ctx]

\* parseFrom from the length check on: the records of the statement.
RECURSIVE addObjects(_, _)

addObjects(c, objs) ==
    IF objs = <<>>
    THEN c
    ELSE addObjects(addImport(c, c.call.rootModuleName \o <<".">> \o Head(objs),
                              c.call.isRelative),
                    Tail(objs))

parseFromResolve(c) ==
    IF Len(c.call.importedObjects) = 0
    THEN raise(c, "Poorly formed 'from' statement never imported any objects")
    ELSE IF \E i \in 1..Len(c.call.importedObjects) :
                c.call.importedObjects[i] = <<"*">>
    THEN backToLoop(addImport(c, c.call.rootModuleName, c.call.isRelative))
    ELSE backToLoop(addObjects(c, c.call.importedObjects))

\* The while loop of parseImportedObjects, at its test.
parseImportedObjects(c) ==
    IF currentToken(c) # None /\ currentToken(c).type = ","
    THEN callDotted(nextToken(c), "objects")
    ELSE parseFromResolve(c)

\* parseFrom after the root module name was parsed.
parseFromRoot(c) ==
    IF c.call.rootModuleName = NoName
    THEN raise(c, "Module identifier should follow a 'from' keyword")
    ELSE IF currentToken(c) = None
    THEN raise(c, "Unexpected end of tokens")
    ELSE IF currentToken(c).type # "import"
    THEN raise(c, "'import' keyword should follow root moudle name in 'from' import statement")
    ELSE callDotted([c EXCEPT !.call.importedObjects = <<>>], "objects")

\* parseDottedIdentifier returns value to the caller named by ctx.
resume(c, ctx, value) ==
    IF ctx = "import"
    THEN backToLoop(addImport(c, value, FALSE))
    ELSE IF ctx = "fromRoot"
    THEN parseFromRoot([c EXCEPT !.call.rootModuleName = value])
    ELSE parseImportedObjects(
             [c EXCEPT !.call.importedObjects = Append(@, value)])

\* parseDottedIdentifier up to its while loop.
parseDottedIdentifier(c) ==
    LET token == currentToken(c) IN
    IF token = None
    THEN raise(c, "Unexpected end of tokens")
    ELSE IF token.type = "*"
    THEN resume(c, c.call.ctx, <<"*">>)
    ELSE IF token.type # "identifier"
    THEN raise(c, "Dotted identifier must start with an identifier token")
    ELSE [c EXCEPT !.call.pc = "dotted", !.call.dtoken = token,
                   !.call.name = <<>>, !.call.lookingForDot = FALSE]

\* Leaving the while loop of parseDottedIdentifier by break.
dottedReturn(c) ==
    resume(popDotted(c), c.call.ctx,
           IF c.call.name = <<>> THEN NoName ELSE c.call.name)

\* token = self.nextToken() at the bottom of the loop.
dottedAdvance(c) ==
    LET c1 == nextToken(c) IN [c1 EXCEPT !.call.dtoken = currentToken(c1)]

\* dottedStep that ends the identifier at a second dot instead of raising.
dottedStep_dotsBreak(c) ==
    LET token == c.call.dtoken IN
    IF c.call.lookingForDot
    THEN IF token = None
         THEN dottedReturn(c)
         ELSE IF token.type = "identifier"
         THEN dottedReturn(c)
         ELSE IF token.type = "."
         THEN dottedAdvance([c EXCEPT !.call.name = Append(@, "."),
                                      !.call.lookingForDot = FALSE])
         ELSE dottedReturn(c)
    ELSE IF token = None
         THEN raise(c, "Unexpected end of tokens - trailing dot operator")
         ELSE IF token.type = "identifier"
         THEN dottedAdvance([c EXCEPT !.call.name = Append(@, token.value),
                                      !.call.lookingForDot = TRUE])
         ELSE dottedReturn(c)

\* One iteration of the while loop of parseDottedIdentifier.
dottedStep(c) ==
    LET token == c.call.dtoken IN
    IF c.call.lookingForDot
    THEN IF token = None
         THEN dottedReturn(c)
         ELSE IF token.type = "identifier"
         THEN dottedReturn(c)
         ELSE IF token.type = "."
         THEN dottedAdvance([c EXCEPT !.call.name = Append(@, "."),
                                      !.call.lookingForDot = FALSE])
         ELSE dottedReturn(c)
    ELSE IF token = None
         THEN raise(c, "Unexpected end of tokens - trailing dot operator")
         ELSE IF token.type = "identifier"
         THEN dottedAdvance([c EXCEPT !.call.name = Append(@, token.value),
                                      !.call.lookingForDot = TRUE])
         ELSE IF token.type = "."
         THEN raise(c, "Invalid identifier - two consecutive dot operators present")
         ELSE dottedReturn(c)

\* parseImport up to its call of parseDottedIdentifier.
parseImport(c) == callDotted(nextToken(c), "import")

\* parseFrom up to its call of parseDottedIdentifier.
parseFrom(c) ==
    LET c1 == nextToken(c)
        token == currentToken(c1)
    IN  IF token = None
        THEN raise(c1, "Unexpected end of tokens")
        ELSE IF token.type = "."
        THEN callDotted([c1 EXCEPT !.call.isRelative = TRUE], "fromRoot")
        ELSE callDotted([c1 EXCEPT !.self.index = @ - 1,
                                   !.call.isRelative = FALSE], "fromRoot")

\* The else branch of parse's loop: token = self.nextToken().
advance(c) ==
    LET c1 == nextToken(c) IN [c1 EXCEPT !.call.token = currentToken(c1)]

\* The end of parse: temp = self.foundImports; self.clear(); return temp.
finish(c) ==
    LET temp == c.self.foundImports IN
    [clear(c) EXCEPT !.call.pc = "returned", !.call.token = None,
                     !.call.result = temp]

\* The test of parse's while loop and one iteration of it.
whileStep(c) ==
    IF c.call.token = None
    THEN finish(c)
    ELSE IF c.call.token.type = "import"
    THEN parseImport(c)
    ELSE IF c.call.token.type = "from"
    THEN parseFrom(c)
    ELSE advance(c)

\* parse that does not call clear() before it starts.
parse_noClear(c, tokens) ==
    LET prev == c.call.pc
        stale == c.self.foundImports
    IN  IF Len(tokens) = 0
        THEN [c EXCEPT !.call = [Frame(tokens, prev, stale)
                                   EXCEPT !.pc = "returned", !.result = <<>>]]
        ELSE LET c2 == [c EXCEPT !.self.tokens = tokens]
             IN  [c2 EXCEPT !.call = [Frame(tokens, prev, stale)
                                        EXCEPT !.token = currentToken(c2)]]

\* parse(tokens) up to its while loop.
parse(c, tokens) ==
    LET prev == c.call.pc
        stale == c.self.foundImports
    IN  IF Len(tokens) = 0
        THEN [c EXCEPT !.call = [Frame(tokens, prev, stale)
                                   EXCEPT !.pc = "returned", !.result = <<>>]]
        ELSE LET c1 == clear(c)
                 c2 == [c1 EXCEPT !.self.tokens = tokens]
             IN  [c2 EXCEPT !.call = [Frame(tokens, prev, stale)
                                        EXCEPT !.token = currentToken(c2)]]

----------------------------------------------------------------------------
(* The state machine *)

Running == call.pc \in {"loop", "entry", "dotted"}

\* ImportParser(): __init__ calls clear(); no call was made yet.
Init ==
    /\ self = Cleared
    /\ call = [Frame(<<>>, "idle", <<>>) EXCEPT !.pc = "idle"]
    /\ budget = MaxTokens

\* A caller invokes parse(tokens) on the parser, once no call is running.
Parse ==
    /\ ~Running
    /\ \E tokens \in TokenSeqs(budget) :
          /\ Set(parse(Cfg, tokens))
          /\ budget' = budget - Len(tokens)

LoopImport ==
    /\ call.pc = "loop" /\ call.token # None /\ call.token.type = "import"
    /\ Set(whileStep(Cfg))
    /\ UNCHANGED budget

LoopFrom ==
    /\ call.pc = "loop" /\ call.token # None /\ call.token.type = "from"
    /\ Set(whileStep(Cfg))
    /\ UNCHANGED budget

LoopAdvance ==
    /\ call.pc = "loop" /\ call.token # None
    /\ call.token.type \notin {"import", "from"}
    /\ Set(whileStep(Cfg))
    /\ UNCHANGED budget

LoopExit ==
    /\ call.pc = "loop" /\ call.token = None
    /\ Set(whileStep(Cfg))
    /\ UNCHANGED budget

DottedEntry ==
    /\ call.pc = "entry"
    /\ Set(parseDottedIdentifier(Cfg))
    /\ UNCHANGED budget

DottedStep ==
    /\ call.pc = "dotted"
    /\ Set(dottedStep(Cfg))
    /\ UNCHANGED budget

\* The steps of a call that is running.
Step ==
    LoopImport \/ LoopFrom \/ LoopAdvance \/ LoopExit \/ DottedEntry
    \/ DottedStep

Next == Parse \/ Step

Spec == Init /\ [][Next]_vars

\* A call that is running goes on running: parse is ordinary sequential code.
LiveSpec == Spec /\ WF_vars(Step)

----------------------------------------------------------------------------
(* Vocabulary of the properties *)

\* A call of parse has ended, by return or by ParseError.
Done == call.pc \in {"returned", "raised"}

\* A fresh parser running a call to its end, and what the caller sees of it.
step(c) ==
    IF c.call.pc = "loop" THEN whileStep(c)
    ELSE IF c.call.pc = "entry" THEN parseDottedIdentifier(c)
    ELSE dottedStep(c)

RECURSIVE run(_)

run(c) == IF c.call.pc \in {"returned", "raised"} THEN c ELSE run(step(c))

Fresh == [self |-> Cleared,
          call |-> [Frame(<<>>, "idle", <<>>) EXCEPT !.pc = "idle"]]

Outcome(c) ==
    [kind |-> c.call.pc, result |-> c.call.result, error |-> c.call.error]

\* identifier (dot identifier)*
IsDotted(seq) ==
    /\ Len(seq) % 2 = 1
    /\ \A i \in 1..Len(seq) :
          seq[i].type = (IF i % 2 = 1 THEN "identifier" ELSE ".")

\* The text of a run of tokens, as pieces.
Joined(seq) == [i \in 1..Len(seq) |-> seq[i].value]

\* The segments of seq between its comma tokens.
RECURSIVE SplitComma(_)

SplitComma(seq) ==
    IF \E i \in 1..Len(seq) : seq[i].type = ","
    THEN LET i == CHOOSE i \in 1..Len(seq) :
                      /\ seq[i].type = ","
                      /\ \A j \in 1..(i - 1) : seq[j].type # ","
         IN  <<SubSeq(seq, 1, i - 1)>> \o SplitComma(SubSeq(seq, i + 1, Len(seq)))
    ELSE <<seq>>

IsStar(seq) == Len(seq) = 1 /\ seq[1].type = "*"

\* The position of the first import token of toks, 0 if there is none.
ImportAt(toks) ==
    IF \E k \in 1..Len(toks) : toks[k].type = "import"
    THEN CHOOSE k \in 1..Len(toks) :
             /\ toks[k].type = "import"
             /\ \A j \in 1..(k - 1) : toks[j].type # "import"
    ELSE 0

\* toks is `from [.] root import obj (, obj)*`; rel tells if the dot is there.
RootOf(toks, rel) == SubSeq(toks, IF rel THEN 3 ELSE 2, ImportAt(toks) - 1)

ObjectsOf(toks) == SplitComma(SubSeq(toks, ImportAt(toks) + 1, Len(toks)))

IsFromStatement(toks, rel) ==
    /\ Len(toks) >= 4
    /\ toks[1].type = "from"
    /\ (toks[2].type = ".") = rel
    /\ ImportAt(toks) > (IF rel THEN 3 ELSE 2)
    /\ IsDotted(RootOf(toks, rel))
    /\ \A i \in 1..Len(ObjectsOf(toks)) :
          IsDotted(ObjectsOf(toks)[i]) \/ IsStar(ObjectsOf(toks)[i])

HasStar(toks) == \E i \in 1..Len(ObjectsOf(toks)) : IsStar(ObjectsOf(toks)[i])

\* toks is `import x1 (. xi)*`.
IsImportStatement(toks) ==
    /\ Len(toks) >= 2
    /\ toks[1].type = "import"
    /\ IsDotted(Tail(toks))

NoImportLike(toks) ==
    \A i \in 1..Len(toks) : toks[i].type \notin {"import", "from"}

\* `*`, or identifiers joined by single dots.
WellFormedName(name) ==
    \/ name = <<"*">>
    \/ /\ Len(name) % 2 = 1
       /\ \A i \in 1..Len(name) :
             IF i % 2 = 1 THEN name[i] \in Identifiers ELSE name[i] = "."

----------------------------------------------------------------------------
(* Properties *)

\* C1: a call of parse on the tokens of `import x1.x2...xn` returns exactly
\* one record, named x1.x2...xn and absolute.
C1_AbsoluteImport ==
    (Done /\ IsImportStatement(call.arg)) =>
        /\ call.pc = "returned"
        /\ call.result = <<ParsedImport(Joined(Tail(call.arg)), FALSE)>>

\* C2: a call of parse on the tokens of `from root import o1, ..., on` with
\* no `*` among the objects returns one absolute record root.oi per object,
\* in the order written.
C2_FromImportPerObject ==
    (Done /\ IsFromStatement(call.arg, FALSE) /\ ~HasStar(call.arg)) =>
        /\ call.pc = "returned"
        /\ call.result =
              [i \in 1..Len(ObjectsOf(call.arg)) |->
                  ParsedImport(Joined(RootOf(call.arg, FALSE)) \o <<".">>
                                   \o Joined(ObjectsOf(call.arg)[i]),
                               FALSE)]

\* C3: a call of parse on a from statement with `*` anywhere among its
\* objects returns exactly one record: the root module, with the relative
\* flag of the statement.
C3_WildcardPrecedence ==
    \A rel \in BOOLEAN :
        (Done /\ IsFromStatement(call.arg, rel) /\ HasStar(call.arg)) =>
            /\ call.pc = "returned"
            /\ call.result =
                  <<ParsedImport(Joined(RootOf(call.arg, rel)), rel)>>

\* C4: when parseFrom starts parsing the root module name, the cursor is
\* right after `from` if the import is absolute and right after the dot that
\* follows `from` if it is relative; and a from statement with one object,
\* relative or not, gives one record root.object with that flag.
C4_RelativeDisambiguation ==
    /\ (call.pc = "entry" /\ call.ctx = "fromRoot") =>
          IF call.isRelative
          THEN /\ self.index >= 2
               /\ self.tokens[self.index].type = "."
               /\ self.tokens[self.index - 1].type = "from"
          ELSE /\ self.index >= 1
               /\ self.tokens[self.index].type = "from"
    /\ \A rel \in BOOLEAN :
          (/\ Done
           /\ IsFromStatement(call.arg, rel)
           /\ Len(ObjectsOf(call.arg)) = 1
           /\ ~HasStar(call.arg)) =>
              /\ call.pc = "returned"
              /\ call.result =
                    <<ParsedImport(Joined(RootOf(call.arg, rel)) \o <<".">>
                                       \o Joined(ObjectsOf(call.arg)[1]),
                                   rel)>>

\* C5: a call of parse on tokens with no import and no from token only ever
\* advances past tokens, and returns the empty sequence without raising.
C5_NoImportsNoRecords ==
    (call.pc # "idle" /\ NoImportLike(call.arg)) =>
        /\ call.pc \in {"loop", "returned"}
        /\ self.foundImports = <<>> \/ call.pc = "returned"
        /\ call.pc = "returned" => call.result = <<>>

C5_Witness ==
    /\ call.pc = "returned"
    /\ NoImportLike(call.arg)
    /\ Len(call.arg) >= 2
    /\ call.prev = "raised"
    /\ call.stale # <<>>

\* The dotted identifier being parsed has a dot right after a dot.
AtAdjacentDots ==
    /\ call.pc = "dotted"
    /\ ~call.lookingForDot
    /\ call.dtoken.type = "."

\* C6: when parseDottedIdentifier meets a dot right after a dot, the call of
\* parse ends there by raising ParseError, and returns no records.
C6_AdjacentDotsRaise ==
    [][AtAdjacentDots => (call'.pc = "raised" /\ call'.result = <<>>)]_vars

C6_Witness ==
    /\ call.pc = "raised"
    /\ call.error = "Invalid identifier - two consecutive dot operators present"
    /\ Len(call.arg) >= 4

\* C7: whatever calls came before, a call of parse ends as it does on a
\* freshly constructed parser given the same tokens: by the same return value
\* or by the same ParseError.
C7_NoStateAcrossCalls ==
    Done => Outcome(Cfg) = Outcome(run(parse(Fresh, call.arg)))

C7_Witness ==
    /\ call.pc = "returned"
    /\ Len(call.arg) > 0
    /\ call.prev = "raised"
    /\ call.stale # <<>>

\* C8: every record in foundImports is named `*` or by identifiers joined by
\* single dots.
C8_WellFormedNames ==
    \A i \in 1..Len(self.foundImports) :
        WellFormedName(self.foundImports[i].moduleName)

\* C9: every call of parse ends, by return or by ParseError.
C9_ParseTerminates == Running ~> Done

C9_Witness ==
    /\ Done
    /\ Len(call.arg) = MaxTokens
    /\ call.arg[1].type = "import"

\* C10: when a call of parse has returned, foundImports and tokens are empty
\* and index is 0.
C10_CleanAfterReturn == call.pc = "returned" => self = Cleared

\* C11: the cursor is never negative and never beyond the end of the
\* tokens: 0 <= index <= len(tokens), in every state of every call.
C11_CursorBounds ==
    /\ self.index >= 0
    /\ self.index <= Len(self.tokens)

====
